---- MODULE Spec2Model ----
(***************************************************************************)
(* News-Summarizer (src/app.py): the article extractor's text clean-up,    *)
(* the completion client, the summarizer, the sentiment analyzer and the   *)
(* /summarize request handler.                                             *)
(*                                                                         *)
(* Text is a sequence of lexemes.  A lexeme is a run of characters that    *)
(* the code's regular expressions and keyword tests never cut: one         *)
(* whitespace character, one punctuation mark, a keyword, or a word of a   *)
(* stated number of letters ("w25" is a 25-letter word holding no          *)
(* keyword).  Width gives the number of characters of a lexeme, so len()   *)
(* is the sum of the widths.  Confidence values are in hundredths          *)
(* (0.5 is 50, 0.92 is 92, 5 is 500).                                      *)
(***************************************************************************)
EXTENDS Integers, Sequences, FiniteSets, TLC

VARIABLES
    op,                 \* the operation under way
    pc,                 \* its position
    key,                \* GROQ_API_KEY is set
    request,            \* the body of the POST /summarize request
    page,               \* what the article fetch met
    full_article_text,  \* fetch_full_article's result
    text_to_summarize,  \* the text handed to the two analyzers
    replies,            \* what the completion endpoint did on each call made, in order
    summary,            \* summarize_text's result, then the handler's summary
    sentiment,          \* analyze_sentiment's result <<label, confidence>>
    response,           \* the response of the handler
    calls               \* the calls made so far, in order

vars == <<op, pc, key, request, page, full_article_text, text_to_summarize,
          replies, summary, sentiment, response, calls>>

(***************************************************************************)
(* Bounds of the inputs.                                                   *)
(***************************************************************************)
MaxPhrases == 6
MaxProse == 1
MaxFragLen == 3
MaxElems == 2
MaxPreviewPhrases == 3

(***************************************************************************)
(* Program constants.                                                      *)
(***************************************************************************)
MinBodyBytes == 1000
MinElementLen == 30
MinArticleLen == 200
SentimentChars == 4000
SummaryChars == 8000
MinSentenceLen == 20
MaxSentences == 5
MinKeySentenceLen == 30
MinKeySentences == 3

(***************************************************************************)
(* Python values: None or a str.                                           *)
(***************************************************************************)
None == [none |-> TRUE, text |-> <<>>]

Some(t) == [none |-> FALSE, text |-> t]

\* Python truthiness of an Optional[str]: None and "" are false.
Truthy(v) == ~v.none /\ v.text # <<>>

(***************************************************************************)
(* Text primitives.                                                        *)
(***************************************************************************)
Whitespace == {" ", "\n"}

Terminal == {".", "!", "?"}

Punctuation == Terminal \cup {",", "{", "}", "[1]"}

\* \b of the regular expressions: a lexeme made of word characters.
IsWord(l) == l \notin Whitespace /\ l \notin Punctuation

Width(l) ==
    CASE l \in Whitespace \cup Terminal \cup {",", "{", "}"} -> 1
      [] l = "w4" -> 4
      [] l = "w25" -> 25
      [] l = "w40" -> 40
      [] l = "w200" -> 200
      [] l = "like" -> 4
      [] l = "Share" -> 5
      [] l = "please" -> 6
      [] l = "comment" -> 7
      [] l = "subscribe" -> 9
      [] l = "read more" -> 9
      [] l = "ADVERTISEMENT" -> 13

RECURSIVE TextLen(_)
TextLen(t) == IF t = <<>> THEN 0 ELSE Width(Head(t)) + TextLen(Tail(t))

\* str.lower() of one lexeme.
Lower(l) ==
    CASE l = "ADVERTISEMENT" -> "advertisement"
      [] l = "Share" -> "share"
      [] l = "Bearish" -> "bearish"
      [] l = "\"sentiment\":\"POSITIVE\"" -> "\"sentiment\":\"positive\""
      [] OTHER -> l

\* The keywords of the source that occur as substrings of a lower-cased lexeme.
KeywordsIn(l) ==
    CASE l \in {"advertisement", "share", "please", "like", "comment", "subscribe",
                "read more", "good", "bearish"} -> {l}
      [] l = "\"sentiment\":\"positive\"" -> {"positive"}
      [] l = "\"sentiment\":\"negative\"" -> {"negative"}
      [] OTHER -> {}

\* `word in text.lower()` for some word of `words`.
Mentions(t, words) ==
    \E i \in 1..Len(t) : KeywordsIn(Lower(t[i])) \cap words # {}

RECURSIVE LStrip(_)
LStrip(t) == IF t # <<>> /\ Head(t) \in Whitespace THEN LStrip(Tail(t)) ELSE t

RECURSIVE RStrip(_)
RStrip(t) ==
    IF t # <<>> /\ t[Len(t)] \in Whitespace THEN RStrip(SubSeq(t, 1, Len(t) - 1)) ELSE t

\* str.strip()
Strip(t) == RStrip(LStrip(t))

\* `not text.strip()`
Blank(t) == Strip(t) = <<>>

\* text[:n]; exact whenever the cut does not fall inside a lexeme.
RECURSIVE Truncate(_, _)
Truncate(t, n) ==
    IF t = <<>> \/ Width(Head(t)) > n THEN <<>>
    ELSE <<Head(t)>> \o Truncate(Tail(t), n - Width(Head(t)))

\* sep.join(parts)
RECURSIVE Join(_, _)
Join(parts, sep) ==
    IF parts = <<>> THEN <<>>
    ELSE IF Len(parts) = 1 THEN Head(parts)
    ELSE Head(parts) \o <<sep>> \o Join(Tail(parts), sep)

\* The index of the first lexeme of t at or after i that is not whitespace,
\* Len(t) + 1 when there is none.
RECURSIVE SkipSpace(_, _)
SkipSpace(t, i) ==
    IF i <= Len(t) /\ t[i] \in Whitespace THEN SkipSpace(t, i + 1) ELSE i

\* re.split(r'(?<=[.!?])\s+', text): cut at every whitespace run that follows
\* a terminal mark; `cur` is the piece being read.
RECURSIVE SplitFrom(_, _, _)
SplitFrom(t, i, cur) ==
    IF i > Len(t) THEN <<cur>>
    ELSE IF t[i] \in Whitespace /\ i > 1 /\ t[i - 1] \in Terminal
         THEN <<cur>> \o SplitFrom(t, SkipSpace(t, i), <<>>)
         ELSE SplitFrom(t, i + 1, Append(cur, t[i]))

SplitSentences(t) == SplitFrom(t, 1, <<>>)

StripAll(s) == [i \in 1..Len(s) |-> Strip(s[i])]

FirstN(s, n) == SubSeq(s, 1, IF Len(s) < n THEN Len(s) ELSE n)

(***************************************************************************)
(* groq_chat: the completion client.                                       *)
(***************************************************************************)
\* What the endpoint can do on one call; content is choices[0].message.content.
Outcome(kind, status, content) == [kind |-> kind, status |-> status, content |-> content]

GroqFailures ==
    { Outcome("timeout", 0, <<>>), Outcome("connection", 0, <<>>),
      Outcome("response", 401, <<>>), Outcome("response", 429, <<>>),
      Outcome("response", 500, <<>>), Outcome("no_choices", 200, <<>>) }

groq_chat(k, o) ==
    IF ~k THEN None
    ELSE IF o.kind \in {"timeout", "connection"} THEN None
    ELSE IF o.status = 401 THEN None
    ELSE IF o.status = 429 THEN None
    ELSE IF o.status >= 400 THEN None
    ELSE IF o.kind = "response" THEN Some(Strip(o.content))
    ELSE None

Call(fn, text) == [fn |-> fn, text |-> text]

(***************************************************************************)
(* analyze_sentiment.                                                      *)
(***************************************************************************)
Labels == {"positive", "negative", "neutral"}

PositiveWords ==
    {"positive", "optimistic", "favorable", "good", "great", "excellent", "bullish"}

NegativeWords ==
    {"negative", "pessimistic", "unfavorable", "bad", "poor", "terrible", "bearish"}

\* The members a JSON object of a reply is written with: "key": value.
SPos == "\"sentiment\":\"POSITIVE\""
SNeg == "\"sentiment\":\"negative\""
SMixed == "\"sentiment\":\"mixed\""
SNum == "\"sentiment\":5"
CNum == "\"confidence\":0.92"
CStr == "\"confidence\":\"0.92\""
CHigh == "\"confidence\":\"high\""
CFive == "\"confidence\":5"
CNull == "\"confidence\":null"

SentimentMembers == {SPos, SNeg, SMixed, SNum}

ConfidenceMembers == {CNum, CStr, CHigh, CFive, CNull}

Members == SentimentMembers \cup ConfidenceMembers

\* A decoded JSON value: a str, a number (in hundredths) or null.
StrVal(s) == [type |-> "str", str |-> s, num |-> 0]

NumVal(n) == [type |-> "num", str |-> "", num |-> n]

NullVal == [type |-> "null", str |-> "", num |-> 0]

MemberKey(m) == IF m \in SentimentMembers THEN "sentiment" ELSE "confidence"

MemberValue(m) ==
    CASE m = SPos -> StrVal("POSITIVE")
      [] m = SNeg -> StrVal("negative")
      [] m = SMixed -> StrVal("mixed")
      [] m = SNum -> NumVal(500)
      [] m = CNum -> NumVal(92)
      [] m = CStr -> StrVal("0.92")
      [] m = CHigh -> StrVal("high")
      [] m = CFive -> NumVal(500)
      [] m = CNull -> NullVal

\* re.search(r'\{.*\}', result, re.DOTALL): from the first "{" to the last "}"
\* after it; <<>> when there is no match.
JsonMatch(t) ==
    LET opens == {i \in 1..Len(t) : t[i] = "{"}
        first == CHOOSE i \in opens : \A j \in opens : i <= j
        closes == {i \in 1..Len(t) : t[i] = "}" /\ i > first}
    IN  IF opens = {} \/ closes = {} THEN <<>>
        ELSE SubSeq(t, first, CHOOSE i \in closes : \A j \in closes : i >= j)

\* The text between the braces is a member list: members separated by commas.
MemberList(m) ==
    \/ m = <<>>
    \/ /\ Len(m) % 2 = 1
       /\ \A i \in 1..Len(m) : IF i % 2 = 1 THEN m[i] \in Members ELSE m[i] = ","

\* json.loads: a decode error, a value that is no object, or an object (its
\* members in the order written).
JsonLoads(text) ==
    LET t == SelectSeq(text, LAMBDA l : l \notin Whitespace)
    IN  IF t = <<"[1]">> THEN [ok |-> TRUE, object |-> FALSE, members |-> <<>>]
        ELSE IF /\ Len(t) >= 2
                /\ t[1] = "{"
                /\ t[Len(t)] = "}"
                /\ MemberList(SubSeq(t, 2, Len(t) - 1))
             THEN [ok |-> TRUE, object |-> TRUE,
                   members |-> SelectSeq(SubSeq(t, 2, Len(t) - 1), LAMBDA l : l \in Members)]
             ELSE [ok |-> FALSE, object |-> FALSE, members |-> <<>>]

\* dict.get(key, default): the last member written with the key wins.
Get(members, k, default) ==
    LET at == {i \in 1..Len(members) : MemberKey(members[i]) = k}
    IN  IF at = {} THEN default
        ELSE MemberValue(members[CHOOSE i \in at : \A j \in at : i >= j])

LowerLabel(s) == IF s = "POSITIVE" THEN "positive" ELSE s

\* float(v): a number, a numeric str, or an exception.
Float(v) ==
    CASE v.type = "num" -> [ok |-> TRUE, num |-> v.num]
      [] v.type = "str" /\ v.str = "0.92" -> [ok |-> TRUE, num |-> 92]
      [] OTHER -> [ok |-> FALSE, num |-> 0]

Neutral == <<"neutral", 50>>

\* The fallback of the JSONDecodeError handler, over the text it is given.
KeywordScan(t) ==
    IF Mentions(t, PositiveWords) THEN <<"positive", 70>>
    ELSE IF Mentions(t, NegativeWords) THEN <<"negative", 70>>
    ELSE Neutral

\* The try block: `result` is the reply, rebound to the brace match if any.
ParseSentiment(result) ==
    LET match == JsonMatch(result)
        text == IF match # <<>> THEN match ELSE result
        data == JsonLoads(text)
        s == Get(data.members, "sentiment", StrVal("neutral"))
        c == Float(Get(data.members, "confidence", NumVal(50)))
    IN  IF ~data.ok THEN KeywordScan(text)
        ELSE IF ~data.object \/ s.type # "str" \/ ~c.ok THEN Neutral
        ELSE <<IF LowerLabel(s.str) \in Labels THEN LowerLabel(s.str) ELSE "neutral", c.num>>

AnalyzeSentimentNoGuard(text, k, o) ==
    LET result == groq_chat(k, o)
    IN  [value |-> IF ~Truthy(result) THEN Neutral ELSE ParseSentiment(result.text),
         calls |-> <<Call("groq_chat:sentiment", Truncate(text, SentimentChars))>>]

\* The result and the calls made.
analyze_sentiment(text, k, o) ==
    IF Blank(text) THEN [value |-> Neutral, calls |-> <<>>]
    ELSE LET result == groq_chat(k, o)
         IN  [value |-> IF ~Truthy(result) THEN Neutral ELSE ParseSentiment(result.text),
              calls |-> <<Call("groq_chat:sentiment", Truncate(text, SentimentChars))>>]

(***************************************************************************)
(* summarize_text.                                                         *)
(***************************************************************************)
NoText == <<"No text to summarize">>

AIUnavailable == "AI summary unavailable. Key information from the article: "

CouldNotGenerate ==
    <<"Could not generate summary. The article content may be inaccessible or formatted unusually.">>

Boilerplate == {"subscribe", "share", "comment"}

Meaningful(s) ==
    TextLen(Strip(s)) > MinSentenceLen /\ ~Mentions(s, Boilerplate)

\* The fallback summary built from the text itself.
ExtractiveSummaryAll(text) ==
    LET kept == StripAll(SelectSeq(SplitSentences(text), Meaningful))
    IN  IF kept # <<>> THEN <<AIUnavailable>> \o Join(kept, " ")
        ELSE CouldNotGenerate

ExtractiveSummary(text) ==
    LET kept == StripAll(SelectSeq(SplitSentences(text), Meaningful))
    IN  IF kept # <<>> THEN <<AIUnavailable>> \o Join(FirstN(kept, MaxSentences), " ")
        ELSE CouldNotGenerate

\* summarize_text with the completion call made again after a failure.
SummarizeTextRetry(text, k, o) ==
    IF Blank(text) THEN [value |-> NoText, calls |-> <<>>]
    ELSE LET s == groq_chat(k, o)
             c == Call("groq_chat:summary", Truncate(text, SummaryChars))
         IN  [value |-> IF ~Truthy(s) THEN ExtractiveSummary(text) ELSE s.text,
              calls |-> IF ~Truthy(s) THEN <<c, c>> ELSE <<c>>]

\* The result and the calls made.  The title only enters the prompt.
summarize_text(text, k, o) ==
    IF Blank(text) THEN [value |-> NoText, calls |-> <<>>]
    ELSE LET s == groq_chat(k, o)
         IN  [value |-> IF ~Truthy(s) THEN ExtractiveSummary(text) ELSE s.text,
              calls |-> <<Call("groq_chat:summary", Truncate(text, SummaryChars))>>]

(***************************************************************************)
(* fetch_full_article.  A page is what requests.get met (an exception, an  *)
(* error status, or a body of `size` bytes), whether the selectors or the  *)
(* paragraph grouping found a content container, and the nodes of that     *)
(* container in document order, each with its tag and its text.            *)
(***************************************************************************)
TextTags == {"p", "h1", "h2", "h3", "li"}

ElementMarkers ==
    {"advertisement", "related:", "read more:", "share this:", "subscribe",
     "newsletter", "comment", "sponsored"}

PromoWords == {"please", "subscribe", "share", "comment", "like"}

KeepElement(t) == TextLen(t) > MinElementLen /\ ~Mentions(t, ElementMarkers)

\* content.get_text(): the text of every node, nothing between them.
RECURSIVE GetText(_)
GetText(nodes) == IF nodes = <<>> THEN <<>> ELSE Head(nodes).text \o GetText(Tail(nodes))

\* The text handed to the clean-up: the kept elements joined by "\n", or all
\* the text of the container when no element is kept.
RawText(nodes) ==
    LET elems == SelectSeq(nodes, LAMBDA n : n.tag \in TextTags)
        kept == SelectSeq(StripAll([i \in 1..Len(elems) |-> elems[i].text]), KeepElement)
    IN  IF kept = <<>> THEN GetText(nodes) ELSE Join(kept, "\n")

\* re.sub(r'\s+', ' ', text)
RECURSIVE CollapseWhitespace(_)
CollapseWhitespace(t) ==
    IF t = <<>> THEN <<>>
    ELSE IF Head(t) \in Whitespace THEN <<" ">> \o CollapseWhitespace(LStrip(t))
    ELSE <<Head(t)>> \o CollapseWhitespace(Tail(t))

\* The end of `.*?\.` read from position i: the index of the first "." at or
\* after i with no line break before it, 0 when there is none.
FirstPeriod(t, i) ==
    LET at == {j \in i..Len(t) : t[j] = "." /\ \A k \in i..(j - 1) : t[k] # "\n"}
    IN  IF at = {} THEN 0 ELSE CHOOSE j \in at : \A x \in at : j <= x

\* re.sub(r'ADVERTISEMENT.*?\.\s*', '', text, flags=re.IGNORECASE), from i on.
RECURSIVE RemoveAdsFrom(_, _)
RemoveAdsFrom(t, i) ==
    IF i > Len(t) THEN <<>>
    ELSE IF "advertisement" \in KeywordsIn(Lower(t[i])) /\ FirstPeriod(t, i + 1) # 0
         THEN RemoveAdsFrom(t, SkipSpace(t, FirstPeriod(t, i + 1) + 1))
         ELSE <<t[i]>> \o RemoveAdsFrom(t, i + 1)

\* The promotional keyword at i stands between word boundaries.
PromoAt(t, i) ==
    /\ Lower(t[i]) \in PromoWords
    /\ i = 1 \/ ~IsWord(t[i - 1])
    /\ i = Len(t) \/ ~IsWord(t[i + 1])

\* re.sub(r'\b(?:please|subscribe|share|comment|like)\b.*?\.', '', text,
\*        flags=re.IGNORECASE), from i on.
RECURSIVE RemovePromoFrom(_, _)
RemovePromoFrom(t, i) ==
    IF i > Len(t) THEN <<>>
    ELSE IF PromoAt(t, i) /\ FirstPeriod(t, i + 1) # 0
         THEN RemovePromoFrom(t, FirstPeriod(t, i + 1) + 1)
         ELSE <<t[i]>> \o RemovePromoFrom(t, i + 1)

\* Lines 171-174.
CleanText(t) == Strip(RemovePromoFrom(RemoveAdsFrom(CollapseWhitespace(t), 1), 1))

fetch_full_article(pg) ==
    IF pg.outcome # "ok" THEN None
    ELSE IF pg.size < MinBodyBytes THEN None
    ELSE IF ~pg.found THEN None
    ELSE LET text == CleanText(RawText(pg.nodes))
         IN  IF TextLen(text) > MinArticleLen THEN Some(text) ELSE None

(***************************************************************************)
(* Inputs.                                                                 *)
(***************************************************************************)
\* All concatenations of at most n of the phrases P.
RECURSIVE PhraseTexts(_, _)
PhraseTexts(P, n) ==
    IF n = 0 THEN {<<>>}
    ELSE LET S == PhraseTexts(P, n - 1) IN S \cup {s \o p : s \in S, p \in P}

\* All sequences of at most n of the lexemes A.
LexemeTexts(A, n) == UNION {[1..m -> A] : m \in 0..n}

WhitespaceOnly == <<" ", "\n">>

\* A sentence of 26 characters, a short one, an unterminated run, and a
\* sentence with a boilerplate word.
Phrases ==
    { <<"w25", ".", " ">>, <<"w4", "!", "\n">>, <<"w40", " ">>,
      <<"Share", " ", "w25", "?", " ">> }

SummaryTexts == PhraseTexts(Phrases, MaxPhrases) \cup {WhitespaceOnly}

SentimentTexts == {<<>>, WhitespaceOnly, <<"w25", ".", " ">>}

SummaryOutcomes ==
    { Outcome("timeout", 0, <<>>), Outcome("response", 401, <<>>),
      Outcome("response", 200, <<" ">>), Outcome("response", 200, <<"w40", ".">>) }

\* The prose a model wraps its answer in; braces are prose too.
ProseLexemes == {"good", "Bearish", "note", "{", "}"}

Prose == LexemeTexts(ProseLexemes, MaxProse)

ObjectBodies ==
    {<<>>} \cup {<<m>> : m \in Members}
           \cup {<<s, ",", c>> : s \in SentimentMembers, c \in ConfidenceMembers}

Objects == {<<"{">> \o b \o <<"}">> : b \in ObjectBodies}

Cores == Objects \cup {<<"{", "note", "}">>, <<"[1]">>, <<" ">>, <<>>}

SentimentContents == {p \o c \o q : p \in Prose, c \in Cores, q \in Prose}

SentimentOutcomes ==
    GroqFailures \cup {Outcome("response", 200, c) : c \in SentimentContents}

NoRequest == [body |-> "none", url |-> "", text |-> <<>>]

NoPage == [outcome |-> "none", size |-> 0, found |-> FALSE, nodes |-> <<>>]

NoResponse ==
    [status |-> 0, error |-> "", summary |-> <<>>, sentiment |-> "",
     confidence |-> 0, used_full_article |-> FALSE]

NoSentiment == <<"", 0>>

(***************************************************************************)
(* The analyzers called on their own.                                      *)
(***************************************************************************)
InitAnalysis ==
    /\ op \in {"summarize_text", "analyze_sentiment"}
    /\ pc = "call"
    /\ key \in BOOLEAN
    /\ text_to_summarize \in
           (IF op = "summarize_text" THEN SummaryTexts ELSE SentimentTexts)
    /\ request = NoRequest
    /\ page = NoPage
    /\ full_article_text = None
    /\ replies = <<>>
    /\ summary = <<>>
    /\ sentiment = NoSentiment
    /\ response = NoResponse
    /\ calls = <<>>

CallSummarizeText ==
    /\ op = "summarize_text"
    /\ pc = "call"
    /\ \E o \in SummaryOutcomes :
          LET r == summarize_text(text_to_summarize, key, o)
          IN  /\ summary' = r.value
              /\ calls' = calls \o r.calls
              /\ replies' = IF r.calls = <<>> THEN replies ELSE Append(replies, o)
    /\ pc' = "returned"
    /\ UNCHANGED <<op, key, request, page, full_article_text, text_to_summarize,
                   sentiment, response>>

CallAnalyzeSentiment ==
    /\ op = "analyze_sentiment"
    /\ pc = "call"
    /\ \E o \in SentimentOutcomes :
          LET r == analyze_sentiment(text_to_summarize, key, o)
          IN  /\ sentiment' = r.value
              /\ calls' = calls \o r.calls
              /\ replies' = IF r.calls = <<>> THEN replies ELSE Append(replies, o)
    /\ pc' = "returned"
    /\ UNCHANGED <<op, key, request, page, full_article_text, text_to_summarize,
                   summary, response>>

NextAnalysis == CallSummarizeText \/ CallAnalyzeSentiment

SpecAnalysis == InitAnalysis /\ [][NextAnalysis]_vars

(***************************************************************************)
(* fetch_full_article called on its own.                                   *)
(***************************************************************************)
ArticleLexemes == {"w200", " ", ".", "please", "ADVERTISEMENT"}

NodeTexts == LexemeTexts(ArticleLexemes, MaxFragLen) \ {<<>>}

Nodes == [tag : {"p", "div"}, text : NodeTexts]

Page(outcome, size, found, nodes) ==
    [outcome |-> outcome, size |-> size, found |-> found, nodes |-> nodes]

FailedPages ==
    { Page("exception", 0, FALSE, <<>>), Page("http_error", 0, FALSE, <<>>),
      Page("ok", MinBodyBytes - 1, TRUE, <<>>), Page("ok", MinBodyBytes, FALSE, <<>>) }

Pages ==
    FailedPages \cup
    {Page("ok", MinBodyBytes, TRUE, n) : n \in UNION {[1..m -> Nodes] : m \in 0..MaxElems}}

InitExtract ==
    /\ op = "fetch_full_article"
    /\ pc = "call"
    /\ key = TRUE
    /\ request = NoRequest
    /\ page = NoPage
    /\ full_article_text = None
    /\ text_to_summarize = <<>>
    /\ replies = <<>>
    /\ summary = <<>>
    /\ sentiment = NoSentiment
    /\ response = NoResponse
    /\ calls = <<>>

CallFetchFullArticle ==
    /\ op = "fetch_full_article"
    /\ pc = "call"
    /\ \E pg \in Pages :
          /\ page' = pg
          /\ full_article_text' = fetch_full_article(pg)
    /\ calls' = Append(calls, Call("requests.get", <<>>))
    /\ pc' = "returned"
    /\ UNCHANGED <<op, key, request, text_to_summarize, replies, summary, sentiment,
                   response>>

NextExtract == CallFetchFullArticle

SpecExtract == InitExtract /\ [][NextExtract]_vars

(***************************************************************************)
(* summarize: the POST /summarize handler.                                 *)
(***************************************************************************)
PreviewOnlyNote ==
    "Note: Full article content was unavailable. This summary is based on the preview text only.\n\n"

KeyPointsPrefix == "Key points from the article: "

ComprehensiveUnavailable ==
    <<"Comprehensive summary unavailable. The article content may be inaccessible or formatted unusually. Please try another article.">>

Error(status, message) ==
    [status |-> status, error |-> message, summary |-> <<>>, sentiment |-> "",
     confidence |-> 0, used_full_article |-> FALSE]

Result200(s, label, score, used) ==
    [status |-> 200, error |-> "", summary |-> s, sentiment |-> label,
     confidence |-> score, used_full_article |-> used]

\* Line 405.
ChooseTextPreviewOnly(full, preview) == preview

ChooseText(full, preview) == IF Truthy(full) THEN full.text ELSE preview

\* Line 407.
NoContentNever(text) == FALSE

NoContent(text) == text = <<>> \/ Blank(text)

\* Lines 412-414.
SummaryPrefixNever(full) == <<>>

SummaryPrefix(full) == IF ~Truthy(full) THEN <<PreviewOnlyNote>> ELSE <<>>

KeySentence(s) ==
    /\ TextLen(Strip(s)) > MinKeySentenceLen
    /\ ~Mentions(s, {"subscribe", "share", "comment", "read more"})

\* Lines 418-429: the handler's own fallback, which replaces summarize_text's.
HandlerSummary(s, text) ==
    IF s = <<>> \/ \E i \in 1..Len(s) : s[i] = AIUnavailable
    THEN LET kept == StripAll(SelectSeq(SplitSentences(text), KeySentence))
         IN  IF kept # <<>> /\ Len(kept) >= MinKeySentences
             THEN <<KeyPointsPrefix>> \o Join(FirstN(kept, MaxSentences), " ")
             ELSE ComprehensiveUnavailable
    ELSE s

\* The request bodies: no JSON or an empty object ("none"), a body the handler
\* raises on before line 395 (not JSON, not an object, a text that is no
\* str: "invalid"), or an object with a url and a preview text.
PreviewPhrases ==
    { <<"w40", ".", " ">>, <<"w25", ".", "\n">>, <<"read more", " ", "w40", ".", " ">>,
      <<" ">> }

PreviewTexts == PhraseTexts(PreviewPhrases, MaxPreviewPhrases)

Requests ==
    { [body |-> "none", url |-> "", text |-> <<>>],
      [body |-> "invalid", url |-> "", text |-> <<>>] }
    \cup [body : {"object"}, url : {"", "https://news.example/a"}, text : PreviewTexts]

\* The pages the handler's fetch can meet: the failures, an article of one
\* sentence, one of three, and one the clean-up leaves too short.
RequestPages ==
    FailedPages \cup
    { Page("ok", MinBodyBytes, TRUE, <<[tag |-> "p", text |-> t]>>) :
        t \in { <<"w200", ".">>,
                <<"w200", ".", " ", "w200", ".", " ", "w200", ".">>,
                <<"please", " ", "w200", ".">> } }

RequestSentimentOutcomes ==
    { Outcome("timeout", 0, <<>>) } \cup
    { Outcome("response", 200, c) :
        c \in { <<"{", SPos, ",", CStr, "}">>, <<"{", SNeg, ",", CHigh, "}">>,
                <<"Bearish">>, <<"note">> } }

Init ==
    /\ op = "summarize"
    /\ pc = "receive"
    /\ key \in BOOLEAN
    /\ request = NoRequest
    /\ page = NoPage
    /\ full_article_text = None
    /\ text_to_summarize = <<>>
    /\ replies = <<>>
    /\ summary = <<>>
    /\ sentiment = NoSentiment
    /\ response = NoResponse
    /\ calls = <<>>

\* Lines 382-401: the request is read and checked.
Receive ==
    /\ op = "summarize"
    /\ pc = "receive"
    /\ \E req \in Requests :
          /\ request' = req
          /\ IF req.body = "invalid"
             THEN response' = Error(500, "Internal server error") /\ pc' = "done"
             ELSE IF req.body = "none"
             THEN response' = Error(400, "No JSON data provided") /\ pc' = "done"
             ELSE IF req.url = ""
             THEN response' = Error(400, "No article URL provided") /\ pc' = "done"
             ELSE IF ~key
             THEN response' = Error(500, "Groq API key is not configured") /\ pc' = "done"
             ELSE response' = response /\ pc' = "fetch"
    /\ UNCHANGED <<op, key, page, full_article_text, text_to_summarize, replies,
                   summary, sentiment, calls>>

\* Lines 403-410: the article is fetched and the text to analyze chosen.
FetchArticle ==
    /\ op = "summarize"
    /\ pc = "fetch"
    /\ \E pg \in RequestPages :
          LET full == fetch_full_article(pg)
              text == ChooseText(full, request.text)
          IN  /\ page' = pg
              /\ full_article_text' = full
              /\ text_to_summarize' = text
              /\ IF NoContent(text)
                 THEN /\ response' = Error(400, "No text content available to summarize")
                      /\ pc' = "done"
                 ELSE response' = response /\ pc' = "summary"
    /\ calls' = Append(calls, Call("requests.get", <<>>))
    /\ UNCHANGED <<op, key, request, replies, summary, sentiment>>

\* Lines 416-429: the summary completion and the handler's fallback.
SummaryCompletion ==
    /\ op = "summarize"
    /\ pc = "summary"
    /\ \E o \in SummaryOutcomes :
          LET r == summarize_text(text_to_summarize, key, o)
          IN  /\ summary' = HandlerSummary(r.value, text_to_summarize)
              /\ calls' = calls \o r.calls
              /\ replies' = IF r.calls = <<>> THEN replies ELSE Append(replies, o)
    /\ pc' = "sentiment"
    /\ UNCHANGED <<op, key, request, page, full_article_text, text_to_summarize,
                   sentiment, response>>

\* Lines 431-441: the sentiment completion and the response.
SentimentCompletion ==
    /\ op = "summarize"
    /\ pc = "sentiment"
    /\ \E o \in RequestSentimentOutcomes :
          LET r == analyze_sentiment(text_to_summarize, key, o)
          IN  /\ sentiment' = r.value
              /\ calls' = calls \o r.calls
              /\ replies' = IF r.calls = <<>> THEN replies ELSE Append(replies, o)
              /\ response' = Result200(SummaryPrefix(full_article_text) \o summary,
                                       r.value[1], r.value[2], Truthy(full_article_text))
    /\ pc' = "done"
    /\ UNCHANGED <<op, key, request, page, full_article_text, text_to_summarize,
                   summary>>

Next == Receive \/ FetchArticle \/ SummaryCompletion \/ SentimentCompletion

Spec == Init /\ [][Next]_vars

\* A handler that has not returned moves on to a later position.
Advance == pc # "done" /\ pc' \in {"fetch", "summary", "sentiment", "done"} \ {pc}

\* The handler is one sequential function without a loop, and each call it
\* blocks on is made with a timeout (20 s at line 98, 60 s at line 50), so a
\* request that has not been answered takes its next step.  Every step of
\* Next changes pc and one is possible wherever pc is not "done", so this is
\* the weak fairness of Next, stated on the position.
FairSpec == Spec /\ WF_pc(Advance)

(***************************************************************************)
(* Claims.                                                                 *)
(***************************************************************************)
SentimentReturned == op = "analyze_sentiment" /\ pc = "returned"

SummaryReturned == op = "summarize_text" /\ pc = "returned"

\* What groq_chat returned on the call made.
Result == groq_chat(key, replies[Len(replies)])

\* The completion client was called and returned text.
Answered == calls # <<>> /\ Truthy(Result)

\* What the code hands to json.loads.
Decoded ==
    JsonLoads(IF JsonMatch(Result.text) # <<>> THEN JsonMatch(Result.text) ELSE Result.text)

\* C1: whatever the completion client returns, analyze_sentiment returns a
\* label among positive, negative, neutral and a confidence in [0.0, 1.0].
C1_LabelAndConfidenceInRange ==
    SentimentReturned => sentiment[1] \in Labels /\ sentiment[2] \in 0..100

\* C6: when the reply cannot be decoded as JSON, the result is the keyword
\* scan of the whole reply: positive words first, then negative words
\* (bearish among them), else neutral.
C6_FallbackScansWholeReply ==
    (SentimentReturned /\ Answered /\ ~Decoded.ok) => sentiment = KeywordScan(Result.text)

\* C7: a reply that is one JSON object with a sentiment and a confidence,
\* wrapped in any prose, gives the lower-cased sentiment and the confidence
\* as a number; the prose changes nothing.
C7_ProseNeverChangesResult ==
    (SentimentReturned /\ Answered) =>
        \A p \in Prose, q \in Prose, s \in {SPos, SNeg}, c \in {CNum, CStr, CFive} :
            Result.text = p \o <<"{", s, ",", c, "}">> \o q =>
                sentiment = <<LowerLabel(MemberValue(s).str), Float(MemberValue(c)).num>>

\* C8: of a decoded JSON object each field is defaulted on its own: the
\* sentiment to neutral when absent or no valid label, the confidence to 0.5
\* when absent or not a number, the other field kept as decoded.
C8_FieldsDefaultIndependently ==
    (SentimentReturned /\ Answered /\ Decoded.ok /\ Decoded.object) =>
        LET s == Get(Decoded.members, "sentiment", NullVal)
            c == Float(Get(Decoded.members, "confidence", NullVal))
        IN  sentiment =
                << IF s.type = "str" /\ LowerLabel(s.str) \in Labels
                   THEN LowerLabel(s.str) ELSE "neutral",
                   IF c.ok THEN c.num ELSE 50 >>

\* The sentences of a text, read off the text: position i lies in a separator
\* when it is whitespace and only whitespace lies between it and a terminal
\* mark before it; a sentence is a maximal run of positions outside separators.
InSeparator(t, i) ==
    /\ t[i] \in Whitespace
    /\ \E j \in 1..(i - 1) : t[j] \in Terminal /\ \A k \in (j + 1)..i : t[k] \in Whitespace

SentenceStarts(t) ==
    {i \in 1..Len(t) : ~InSeparator(t, i) /\ (i = 1 \/ InSeparator(t, i - 1))}

SentenceFrom(t, a) ==
    LET ends == {b \in a..Len(t) : \A k \in a..b : ~InSeparator(t, k)}
    IN  SubSeq(t, a, CHOOSE b \in ends : \A x \in ends : b >= x)

Sentences(t) ==
    LET starts == SentenceStarts(t)
    IN  [k \in 1..Cardinality(starts) |->
            SentenceFrom(t, CHOOSE a \in starts : Cardinality({x \in starts : x < a}) = k - 1)]

\* The sentences longer than 20 characters that hold no boilerplate word.
KeptSentences(t) ==
    SelectSeq(Sentences(t),
              LAMBDA x : TextLen(Strip(x)) > 20
                         /\ \A i \in 1..Len(x) : Lower(x[i]) \notin {"subscribe", "share", "comment"})

\* The client was called by summarize_text and returned None.
SummaryClientNone == SummaryReturned /\ calls # <<>> /\ Result.none

\* C9: when the client returns None, summarize_text returns the first 5 kept
\* sentences of the full text, in order, joined by single spaces after the
\* "AI summary unavailable" disclaimer, or the fixed message when no sentence
\* is kept; the summary is never empty.
C9_FallbackSummary ==
    SummaryClientNone =>
        LET kept == KeptSentences(text_to_summarize)
        IN  /\ summary # <<>>
            /\ kept = <<>> => summary = CouldNotGenerate
            /\ kept # <<>> =>
                  summary = <<AIUnavailable>>
                            \o Join([i \in 1..(IF Len(kept) < 5 THEN Len(kept) ELSE 5) |->
                                        Strip(kept[i])], " ")

\* C9's case: more than 5 sentences are kept, so the cut at 5 shows.
C9_Witness ==
    SummaryClientNone /\ key /\ Len(KeptSentences(text_to_summarize)) > 5

\* C10: on empty or whitespace-only input summarize_text returns "No text to
\* summarize", analyze_sentiment returns (neutral, 0.5), and no call of the
\* completion client is made.
C10_BlankInputShortCircuits ==
    (pc = "returned" /\ op \in {"summarize_text", "analyze_sentiment"}
                     /\ Blank(text_to_summarize)) =>
        /\ calls = <<>>
        /\ op = "summarize_text" => summary = NoText
        /\ op = "analyze_sentiment" => sentiment = Neutral

\* C10's case: a whitespace-only text handed to summarize_text with the key set.
C10_Witness ==
    SummaryReturned /\ key /\ text_to_summarize = WhitespaceOnly /\ summary = NoText

ExtractReturned == op = "fetch_full_article" /\ pc = "returned"

\* C4: a text returned by fetch_full_article is longer than 200 characters
\* and holds no two consecutive whitespace characters.
C4_ExtractedTextIsNormalised ==
    (ExtractReturned /\ ~full_article_text.none) =>
        LET t == full_article_text.text
        IN  /\ TextLen(t) > 200
            /\ \A i \in 1..(Len(t) - 1) : ~(t[i] \in Whitespace /\ t[i + 1] \in Whitespace)

Done == op = "summarize" /\ pc = "done"

\* The handler got as far as the article fetch.
Fetched == Done /\ calls # <<>>

Succeeded == Done /\ response.status = 200

Disclaimers ==
    {PreviewOnlyNote, AIUnavailable, CouldNotGenerate[1], ComprehensiveUnavailable[1]}

\* The summary completion returned no text.
SummaryFailed == Len(replies) >= 1 /\ ~Truthy(groq_chat(key, replies[1]))

\* The sentiment completion returned no text, or text that is no JSON object.
SentimentFailed == Len(replies) = 2 /\ ~(Decoded.ok /\ Decoded.object)

C3_CompletionFailureIsTagged ==
    (Succeeded /\ (SummaryFailed \/ SentimentFailed)) =>
        ~response.used_full_article \/ response.summary[1] \in Disclaimers

C5_TextSourceAndTag ==
    (Fetched /\ (~full_article_text.none \/ ~Blank(request.text))) =>
        LET used == IF full_article_text.none THEN request.text ELSE full_article_text.text
        IN  /\ response.status = 200
            /\ calls = << Call("requests.get", <<>>),
                          Call("groq_chat:summary", Truncate(used, 8000)),
                          Call("groq_chat:sentiment", Truncate(used, 4000)) >>
            /\ response.used_full_article = ~full_article_text.none
            /\ full_article_text.none <=> response.summary[1] = PreviewOnlyNote

\* C5's case: the fetch raised, preview text was supplied, and the result is
\* built from it.
C5_Witness ==
    /\ Succeeded
    /\ page.outcome = "exception"
    /\ ~Blank(request.text)
    /\ calls[2].text = request.text /\ calls[3].text = request.text
    /\ ~response.used_full_article

\* The external calls of one request, in the order of the source: requests.get
\* of line 98, requests.post of line 50 for summarize_text and for
\* analyze_sentiment.
CallOrder == <<"requests.get", "groq_chat:summary", "groq_chat:sentiment">>

\* The names of the calls issued so far, in order.
Issued == [i \in 1..Len(calls) |-> calls[i].fn]

\* Where the request stands, by the calls issued: none before the fetch, the
\* fetch alone before the summary completion, and so on; issued in the order
\* of CallOrder, none twice, and each completion call answered (replies)
\* before the next call is made.
CallsInOrderOnce ==
    /\ Len(calls) <= Len(CallOrder)
    /\ Issued = SubSeq(CallOrder, 1, Len(calls))
    /\ Len(replies) = (IF calls = <<>> THEN 0 ELSE Len(calls) - 1)
    /\ pc \in {"receive", "fetch"} => calls = <<>>
    /\ pc = "summary" => Len(calls) = 1
    /\ pc = "sentiment" => Len(calls) = 2

\* A completion call is reached only with the key set, so groq_chat does post.
NoCallWithoutUrlAndKey ==
    /\ calls # <<>> => key /\ request.url # ""
    /\ (Done /\ (request.url = "" \/ ~key)) => calls = <<>> /\ response.status # 200

\* Once the summary completion is issued the request ends with the sentiment
\* completion issued too, whatever the summary completion did.
SentimentAlwaysFollowsSummary ==
    (Done /\ Len(calls) >= 2) => Issued = CallOrder /\ response.status = 200

\* A response exists exactly when the handler has returned.
RespondedIffDone == response # NoResponse <=> Done

\* A step issues at most one call and withdraws none, is taken only while no
\* response exists, and a response once made is the end of the request.
OneCallPerStepOneResponse ==
    /\ response = NoResponse
    /\ Len(calls') <= Len(calls) + 1
    /\ SubSeq(calls', 1, Len(calls)) = calls
    /\ response' # NoResponse <=> pc' = "done"

\* C11: in every analysis request the external calls happen in the order
\* article fetch, summary completion, sentiment completion; each is issued at
\* most once (none again after a failure or timeout); the sentiment completion
\* is issued whether or not the summary completion failed; no external call is
\* issued when the URL or the credentials are missing; and the request ends
\* with exactly one response.
C11_CallsSequentialOnceOneResponse ==
    /\ [](CallsInOrderOnce /\ NoCallWithoutUrlAndKey /\ SentimentAlwaysFollowsSummary
            /\ RespondedIffDone)
    /\ [][OneCallPerStepOneResponse]_vars
    /\ <>Done

\* C11's case: the article fetch timed out and the summary completion timed
\* out, and the sentiment completion was still issued, once, and answered.
C11_Witness ==
    /\ Succeeded
    /\ page.outcome = "exception"
    /\ Issued = CallOrder
    /\ replies[1].kind = "timeout"
    /\ replies[2].kind = "response" /\ replies[2].status = 200

====
